---- MODULE Spec2Model ----
(***************************************************************************)
(* A model of the NEODatabase of JPNaan/NearEarthObjects: the entity       *)
(* constructors of models.py, and database.py's construction (the two      *)
(* indices and the linking passes), its two point lookups and its lazy     *)
(* query generator.                                                        *)
(*                                                                         *)
(* Objects are identified by their position in the collection that holds   *)
(* them: a reference to an NEO is its index in neos, a reference to a      *)
(* close approach its index in approaches; the null reference is 0.        *)
(***************************************************************************)
EXTENDS Integers, Sequences, FiniteSets, TLC

VARIABLES neos, approaches, neo_des_dic, neo_nam_dic, pc, result, streams, query_defaults

vars == <<neos, approaches, neo_des_dic, neo_nam_dic, pc, result, streams, query_defaults>>

(***************************************************************************)
(* Bounds of the model.                                                    *)
(***************************************************************************)
MaxNeos == 2
MaxApproaches == 2
MaxStreams == 2
MaxFilterKeys == 2

(***************************************************************************)
(* Values.  Python's None is modelled per type: NoName in a name field,    *)
(* NoNeo as a reference, Open as a filter bound; NaN is float('nan').      *)
(***************************************************************************)
NoName == "<None>"
NoNeo == 0
NaN == -1
Open == -2

Designations == {"2000 AB", "2001 XY"}
ApproachDesignations == Designations \cup {"2002 ZZ"}
RawNames == {NoName, "", "Apophis"}
RawDiameters == {"", "1"}
RawHazardous == {"Y", "N"}

\* float(): the strings the model feeds it.
Float(s) == IF s = "1" THEN 1 ELSE NaN

\* bool() of a str: true unless the string is empty.
Bool(s) == s # ""

(***************************************************************************)
(* models.py: the two entity constructors.                                 *)
(***************************************************************************)
NearEarthObject(designation, name, diameter, hazardous) ==
    LET name1 == IF name = "" THEN NoName ELSE name
        diameter1 == IF diameter = "" THEN NaN ELSE Float(diameter)
        hazardous1 == IF hazardous = "Y" THEN TRUE
                      ELSE IF hazardous = "N" THEN FALSE
                      ELSE Bool(hazardous)
    IN  [designation |-> designation,
         name        |-> name1,
         diameter    |-> diameter1,
         hazardous   |-> hazardous1,
         approaches  |-> <<>>]

\* The time is kept as the number the collaborator cd_to_datetime returns.
CloseApproach(designation, cd_time, distance, velocity) ==
    [designation |-> designation,
     time        |-> cd_time,
     distance    |-> distance,
     velocity    |-> velocity,
     neo         |-> NoNeo]

(***************************************************************************)
(* Python dicts as functions.                                              *)
(***************************************************************************)
EmptyDict == [k \in {} |-> NoNeo]

DictSet(dic, k, v) == [x \in (DOMAIN dic) \cup {k} |-> IF x = k THEN v ELSE dic[x]]

DictGet(dic, k) == IF k \in DOMAIN dic THEN dic[k] ELSE NoNeo

(***************************************************************************)
(* NEODatabase.__init__, loop by loop.                                     *)
(***************************************************************************)
\* A variant that keeps the first NEO of a designation (setdefault).
RECURSIVE DesDicLoopFirstWins(_, _, _)
DesDicLoopFirstWins(ns, i, dic) ==
    IF i > Len(ns) THEN dic
    ELSE DesDicLoopFirstWins(ns, i + 1,
                             IF ns[i].designation \in DOMAIN dic THEN dic
                             ELSE DictSet(dic, ns[i].designation, i))

\* for neo in self._neos: self.neo_des_dic[neo.designation] = neo
RECURSIVE DesDicLoop(_, _, _)
DesDicLoop(ns, i, dic) ==
    IF i > Len(ns) THEN dic
    ELSE DesDicLoop(ns, i + 1, DictSet(dic, ns[i].designation, i))

\* if neo.name != None or neo.name != '':
NameGate(name) == name # NoName \/ name # ""

\* for neo in self._neos: if ...: self.neo_nam_dic[neo.name] = neo
RECURSIVE NamDicLoop(_, _, _)
NamDicLoop(ns, i, dic) ==
    IF i > Len(ns) THEN dic
    ELSE NamDicLoop(ns, i + 1,
                    IF NameGate(ns[i].name) THEN DictSet(dic, ns[i].name, i) ELSE dic)

\* A variant that reads the hazard flag from the variable neo the previous
\* loop left behind (the last NEO) instead of from approach.neo.
LinkApproachLeakedLoopVariable(ca, n, ns) ==
    [neo       |-> n,
     name      |-> ns[n].name,
     diameter  |-> ns[n].diameter,
     hazardous |-> ns[Len(ns)].hazardous] @@ ca

\* The body of the linking loop: the four assignments to one approach.
LinkApproach(ca, n, ns) ==
    [neo       |-> n,
     name      |-> ns[n].name,
     diameter  |-> ns[n].diameter,
     hazardous |-> ns[n].hazardous] @@ ca

\* for approach in self._approaches: ...; a missing key raises KeyError and
\* leaves the approaches already visited as they were assigned.
RECURSIVE LinkLoop(_, _, _, _)
LinkLoop(cas, ns, dic, i) ==
    IF i > Len(cas) THEN [approaches |-> cas, raised |-> FALSE]
    ELSE IF cas[i].designation \notin DOMAIN dic
         THEN [approaches |-> cas, raised |-> TRUE]
         ELSE LinkLoop([cas EXCEPT ![i] = LinkApproach(cas[i], dic[cas[i].designation], ns)],
                       ns, dic, i + 1)

\* A variant that builds the list back to front.
RECURSIVE ComprehensionReversed(_, _, _)
ComprehensionReversed(cas, designation, i) ==
    IF i > Len(cas) THEN <<>>
    ELSE ComprehensionReversed(cas, designation, i + 1)
         \o (IF cas[i].designation = designation THEN <<i>> ELSE <<>>)

\* A variant that stops after the first match.
RECURSIVE ComprehensionFirstMatch(_, _, _)
ComprehensionFirstMatch(cas, designation, i) ==
    IF i > Len(cas) THEN <<>>
    ELSE IF cas[i].designation = designation THEN <<i>>
         ELSE ComprehensionFirstMatch(cas, designation, i + 1)

\* [ca for ca in self._approaches if ca.designation == neo.designation]
RECURSIVE Comprehension(_, _, _)
Comprehension(cas, designation, i) ==
    IF i > Len(cas) THEN <<>>
    ELSE (IF cas[i].designation = designation THEN <<i>> ELSE <<>>)
         \o Comprehension(cas, designation, i + 1)

\* for neo in self._neos: neo.approaches = [...]
BackLinkLoop(ns, cas) ==
    [i \in DOMAIN ns |-> [ns[i] EXCEPT !.approaches = Comprehension(cas, ns[i].designation, 1)]]

Construct ==
    /\ pc = "new"
    /\ LET des == DesDicLoop(neos, 1, EmptyDict)
           nam == NamDicLoop(neos, 1, EmptyDict)
           linked == LinkLoop(approaches, neos, des, 1)
       IN  /\ neo_des_dic' = des
           /\ neo_nam_dic' = nam
           /\ approaches' = linked.approaches
           /\ IF linked.raised
              THEN /\ pc' = "KeyError"
                   /\ neos' = neos
              ELSE /\ pc' = "done"
                   /\ neos' = BackLinkLoop(neos, linked.approaches)
    /\ UNCHANGED <<result, streams, query_defaults>>

(***************************************************************************)
(* The point lookups.  result records the last call and what it returned.  *)
(***************************************************************************)
NoCall == [op |-> "none", arg |-> "", ret |-> NoNeo]

\* return self.neo_des_dic.get(designation)
GetNeoByDesignation(designation) ==
    /\ pc = "done"
    /\ result' = [op |-> "get_neo_by_designation", arg |-> designation,
                  ret |-> DictGet(neo_des_dic, designation)]
    /\ UNCHANGED <<neos, approaches, neo_des_dic, neo_nam_dic, pc, streams, query_defaults>>

\* A variant that caches a miss in the name index.
GetNeoByNameCachingMisses(name) ==
    /\ pc = "done"
    /\ result' = [op |-> "get_neo_by_name", arg |-> name, ret |-> DictGet(neo_nam_dic, name)]
    /\ neo_nam_dic' = IF name \in DOMAIN neo_nam_dic THEN neo_nam_dic
                      ELSE DictSet(neo_nam_dic, name, NoNeo)
    /\ UNCHANGED <<neos, approaches, neo_des_dic, pc, streams, query_defaults>>

GetNeoByName(name) ==
    /\ pc = "done"
    /\ result' = [op |-> "get_neo_by_name", arg |-> name,
                  ret |-> IF name \in DOMAIN neo_nam_dic
                          THEN DictGet(neo_nam_dic, name)
                          ELSE NoNeo]
    /\ UNCHANGED <<neos, approaches, neo_des_dic, neo_nam_dic, pc, streams, query_defaults>>

(***************************************************************************)
(* The filter predicates of the filters module, by their contract: a       *)
(* bounded comparator over one attribute of a close approach, an open      *)
(* bound constraining nothing; a comparison with NaN is false.             *)
(***************************************************************************)
DayLength == 2

\* The date portion of a time.
Date(time) == time \div DayLength

Within(x, lower, upper) ==
    /\ lower = Open \/ (x # NaN /\ lower <= x)
    /\ upper = Open \/ (x # NaN /\ x <= upper)

DateFilter(lower, upper, ca) == Within(Date(ca.time), lower, upper)
DistanceFilter(lower, upper, ca) == Within(ca.distance, lower, upper)
VelocityFilter(lower, upper, ca) == Within(ca.velocity, lower, upper)
DiameterFilter(lower, upper, ca) == Within(ca.diameter, lower, upper)
HazardousFilter(expected, unused, ca) == ca.hazardous = expected

(***************************************************************************)
(* NEODatabase.query: a generator.  A stream is one generator object: its  *)
(* filters argument, the position of its iterator over the approach        *)
(* collection, what it has yielded so far, the number of next() calls it   *)
(* has served, and its status.                                             *)
(***************************************************************************)
RecognizedKeys == {"date", "start_date", "end_date", "distance_min", "distance_max",
                   "velocity_min", "velocity_max", "diameter_min", "diameter_max",
                   "hazardous"}

\* query(self, filters={}): the default is one object made at definition time.
EmptyFilters == [k \in {} |-> <<>>]

\* any(filter_results)
AnyTrue(filter_results) == \E k \in DOMAIN filter_results : filter_results[k]

\* all(filter_results)
AllTrue(filter_results) == \A k \in DOMAIN filter_results : filter_results[k]

\* filters[key][0] or filters[key][1] of a value that is too short.
IndexError(filters) ==
    \E key \in (DOMAIN filters) \cap RecognizedKeys : Len(filters[key]) < 2

\* The list filter_results of one pass of the loop body, the keys in the
\* order of the code.
FilterResults(filters, ca) ==
    (IF "date" \in DOMAIN filters
        THEN <<DateFilter(filters["date"][1], filters["date"][2], ca)>> ELSE <<>>)
    \o (IF "start_date" \in DOMAIN filters
        THEN <<DateFilter(filters["start_date"][1], filters["start_date"][2], ca)>> ELSE <<>>)
    \o (IF "end_date" \in DOMAIN filters
        THEN <<DateFilter(filters["end_date"][1], filters["end_date"][2], ca)>> ELSE <<>>)
    \o (IF "distance_min" \in DOMAIN filters
        THEN <<DistanceFilter(filters["distance_min"][1], filters["distance_min"][2], ca)>> ELSE <<>>)
    \o (IF "distance_max" \in DOMAIN filters
        THEN <<DistanceFilter(filters["distance_max"][1], filters["distance_max"][2], ca)>> ELSE <<>>)
    \o (IF "velocity_min" \in DOMAIN filters
        THEN <<VelocityFilter(filters["velocity_min"][1], filters["velocity_min"][2], ca)>> ELSE <<>>)
    \o (IF "velocity_max" \in DOMAIN filters
        THEN <<VelocityFilter(filters["velocity_max"][1], filters["velocity_max"][2], ca)>> ELSE <<>>)
    \o (IF "diameter_min" \in DOMAIN filters
        THEN <<DiameterFilter(filters["diameter_min"][1], filters["diameter_min"][2], ca)>> ELSE <<>>)
    \o (IF "diameter_max" \in DOMAIN filters
        THEN <<DiameterFilter(filters["diameter_max"][1], filters["diameter_max"][2], ca)>> ELSE <<>>)
    \o (IF "hazardous" \in DOMAIN filters
        THEN <<HazardousFilter(filters["hazardous"][1], filters["hazardous"][2], ca)>> ELSE <<>>)

\* Calling query makes a generator that has not run yet.
NewGenerator(filters) ==
    [filters |-> filters, pos |-> 0, out |-> <<>>, calls |-> 0, status |-> "created"]

Live(gen) == gen.status \in {"created", "suspended"}

\* One next() of a generator whose iterator stands at pos: the loop runs to
\* the next yield, to the end of the collection, or to an exception.
RECURSIVE Resume(_, _, _)
Resume(gen, cas, pos) ==
    IF pos >= Len(cas)
    THEN [gen EXCEPT !.pos = pos, !.calls = @ + 1, !.status = "exhausted"]
    ELSE IF IndexError(gen.filters)
    THEN [gen EXCEPT !.pos = pos + 1, !.calls = @ + 1, !.status = "IndexError"]
    ELSE IF AllTrue(FilterResults(gen.filters, cas[pos + 1]))
    THEN [gen EXCEPT !.pos = pos + 1, !.calls = @ + 1, !.status = "suspended",
                     !.out = Append(@, pos + 1)]
    ELSE Resume(gen, cas, pos + 1)

\* A variant: one iterator kept by the database and shared by its streams.
CursorOfDatabase(strs, s) ==
    LET P == {strs[t].pos : t \in DOMAIN strs}
    IN  CHOOSE m \in P : \A x \in P : x <= m

\* for approach in self._approaches: the iterator belongs to the generator.
Cursor(strs, s) == strs[s].pos

Query(filters) ==
    /\ pc = "done"
    /\ streams' = Append(streams, NewGenerator(filters))
    /\ UNCHANGED <<neos, approaches, neo_des_dic, neo_nam_dic, pc, result, query_defaults>>

QueryDefault == Query(query_defaults)

GeneratorNext(s) ==
    /\ pc = "done"
    /\ s \in DOMAIN streams
    /\ Live(streams[s])
    /\ streams' = [streams EXCEPT ![s] = Resume(streams[s], approaches, Cursor(streams, s))]
    /\ UNCHANGED <<neos, approaches, neo_des_dic, neo_nam_dic, pc, result, query_defaults>>

(***************************************************************************)
(* Sequences of at most n elements of S.                                   *)
(***************************************************************************)
SeqUpTo(S, n) == UNION {[1..k -> S] : k \in 0..n}

RawNeos == {NearEarthObject(d, n, dm, h) :
              d \in Designations, n \in RawNames, dm \in RawDiameters, h \in RawHazardous}

DbApproaches == {CloseApproach(d, 0, 1, 5) : d \in ApproachDesignations}

TypeOK == pc \in {"new", "done", "KeyError"}

InitDb ==
    /\ neos \in SeqUpTo(RawNeos, MaxNeos)
    /\ approaches \in SeqUpTo(DbApproaches, MaxApproaches)
    /\ neo_des_dic = EmptyDict
    /\ neo_nam_dic = EmptyDict
    /\ pc = "new"
    /\ result = NoCall
    /\ streams = <<>>
    /\ query_defaults = EmptyFilters

NextDb ==
    \/ Construct
    \/ \E d \in ApproachDesignations : GetNeoByDesignation(d)
    \/ \E n \in RawNames \cup {"Eros"} : GetNeoByName(n)

SpecDb == InitDb /\ [][NextDb]_vars

(***************************************************************************)
(* The query specifications: the NEOs A and B of the two-NEO scenario, a   *)
(* pool of close approaches of theirs, and filter mappings of at most      *)
(* MaxFilterKeys keys, values of one or of two elements.                   *)
(***************************************************************************)
ScenarioNeos == {NearEarthObject("2000 AB", "Apophis", "1", "Y"),
                 NearEarthObject("2001 XY", "", "", "N")}

ScenarioApproaches == {CloseApproach("2000 AB", 1, 1, 5),
                       CloseApproach("2001 XY", 3, 2, 6),
                       CloseApproach("2000 AB", 3, 2, 6)}

FilterKeys == RecognizedKeys \cup {"name"}

FilterValues(key) ==
    CASE key = "date"         -> {<<0>>, <<0, 0>>, <<0, 1>>, <<1, 1>>}
      [] key = "start_date"   -> {<<1, Open>>}
      [] key = "end_date"     -> {<<Open, 0>>}
      [] key = "distance_min" -> {<<2, Open>>}
      [] key = "distance_max" -> {<<Open, 1>>}
      [] key = "velocity_min" -> {<<6, Open>>}
      [] key = "velocity_max" -> {<<Open, 5>>}
      [] key = "diameter_min" -> {<<1, Open>>}
      [] key = "diameter_max" -> {<<Open, 0>>}
      [] key = "hazardous"    -> {<<TRUE>>, <<TRUE, Open>>, <<FALSE, Open>>}
      [] key = "name"         -> {<<"Apophis">>}

\* The mappings whose keys are exactly K.
RECURSIVE MappingsOver(_)
MappingsOver(K) ==
    IF K = {} THEN {EmptyFilters}
    ELSE LET key == CHOOSE k \in K : TRUE
         IN  {DictSet(f, key, v) : f \in MappingsOver(K \ {key}), v \in FilterValues(key)}

FilterKeySets == {K \in SUBSET FilterKeys : Cardinality(K) <= MaxFilterKeys}

StreamFilters == {[hazardous |-> <<TRUE, Open>>, name |-> <<"Apophis">>],
                  [hazardous |-> <<TRUE>>]}

InitQuery ==
    /\ neos \in SeqUpTo(ScenarioNeos, MaxNeos)
    /\ approaches \in SeqUpTo(ScenarioApproaches, MaxApproaches)
    /\ neo_des_dic = EmptyDict
    /\ neo_nam_dic = EmptyDict
    /\ pc = "new"
    /\ result = NoCall
    /\ streams = <<>>
    /\ query_defaults = EmptyFilters

\* One stream at a time, every filter mapping.
NextQuery ==
    \/ Construct
    \/ \E K \in FilterKeySets : \E f \in MappingsOver(K) : streams = <<>> /\ Query(f)
    \/ \E s \in DOMAIN streams : GeneratorNext(s)

SpecQuery == InitQuery /\ [][NextQuery]_vars

\* Streams over the two-NEO scenario, interleaved with each other and with
\* the lookups.
InitStreams ==
    /\ neos = <<NearEarthObject("2000 AB", "Apophis", "1", "Y"),
                NearEarthObject("2001 XY", "", "", "N")>>
    /\ approaches \in SeqUpTo(ScenarioApproaches, MaxApproaches)
    /\ neo_des_dic = EmptyDict
    /\ neo_nam_dic = EmptyDict
    /\ pc = "new"
    /\ result = NoCall
    /\ streams = <<>>
    /\ query_defaults = EmptyFilters

NextStreams ==
    \/ Construct
    \/ \E d \in {"2000 AB", "2002 ZZ"} : GetNeoByDesignation(d)
    \/ \E n \in {"Apophis", "Eros"} : GetNeoByName(n)
    \/ \E f \in StreamFilters : Len(streams) < MaxStreams /\ Query(f)
    \/ Len(streams) < MaxStreams /\ QueryDefault
    \/ \E s \in DOMAIN streams : GeneratorNext(s)

SpecStreams == InitStreams /\ [][NextStreams]_vars

(***************************************************************************)
(* Properties of construction and of the point lookups.                    *)
(***************************************************************************)
NeoIds == DOMAIN neos
ApproachIds == DOMAIN approaches
Range(s) == {s[k] : k \in DOMAIN s}
NeosDesignated(d) == {n \in NeoIds : neos[n].designation = d}
Unresolved == {a \in ApproachIds : NeosDesignated(approaches[a].designation) = {}}
Last(S) == CHOOSE m \in S : \A x \in S : x <= m

\* C1: in a constructed database the name index has no entry under the null
\* name or the empty string, get_neo_by_name of the null name or of the empty
\* string returns not-found, and get_neo_by_name never returns an NEO whose
\* name is null.
C1_NameIndexHoldsNamedNeosOnly ==
    pc = "done" =>
        /\ NoName \notin DOMAIN neo_nam_dic
        /\ "" \notin DOMAIN neo_nam_dic
        /\ \A k \in DOMAIN neo_nam_dic : neos[neo_nam_dic[k]].name \notin {NoName, ""}
        /\ result.op = "get_neo_by_name" =>
              /\ result.arg \in {NoName, ""} => result.ret = NoNeo
              /\ result.ret # NoNeo => neos[result.ret].name # NoName

\* C2: after construction every close approach refers to an NEO of its own
\* designation and carries that NEO's name, diameter and hazard flag.
C2_ApproachesLinkedToTheirNeo ==
    pc = "done" =>
        \A a \in ApproachIds :
            LET ca == approaches[a] IN
            /\ ca.neo \in NeoIds
            /\ neos[ca.neo].designation = ca.designation
            /\ {"name", "diameter", "hazardous"} \subseteq DOMAIN ca
            /\ ca.name = neos[ca.neo].name
            /\ ca.diameter = neos[ca.neo].diameter
            /\ ca.hazardous = neos[ca.neo].hazardous

C2_Witness ==
    /\ pc = "done"
    /\ \E a, b \in ApproachIds :
          /\ approaches[a].neo # approaches[b].neo
          /\ approaches[a].hazardous # approaches[b].hazardous
          /\ approaches[a].name # approaches[b].name
          /\ approaches[a].diameter = NaN

\* C3: after construction each NEO's approaches are exactly the close
\* approaches of its designation, each once, in the order of the approach
\* collection; an NEO without a matching approach has none.
C3_ApproachesOfNeoExactAndOrdered ==
    pc = "done" =>
        \A n \in NeoIds :
            LET s == neos[n].approaches IN
            /\ \A k \in DOMAIN s :
                  /\ s[k] \in ApproachIds
                  /\ approaches[s[k]].designation = neos[n].designation
            /\ \A a \in ApproachIds :
                  approaches[a].designation = neos[n].designation
                      => Cardinality({k \in DOMAIN s : s[k] = a}) = 1
            /\ \A j, k \in DOMAIN s : j < k => s[j] < s[k]

C3_Witness ==
    /\ pc = "done"
    /\ \E n, m \in NeoIds :
          /\ Len(neos[n].approaches) = 2
          /\ neos[m].approaches = <<>>
          /\ neos[m].designation # neos[n].designation

\* C4, as claimed: after construction, whether or not designations are
\* unique, an approach is among an NEO's approaches exactly if its neo is
\* that NEO.
C4_BidirectionalForEveryNeo ==
    pc = "done" =>
        \A n \in NeoIds : \A a \in ApproachIds :
            a \in Range(neos[n].approaches) <=> approaches[a].neo = n

\* C4, amended: after construction every approach is among the approaches
\* of its neo, and an approach among the approaches of an NEO that is the
\* last of its designation in the NEO collection has that NEO as its neo
\* (so the linkage is bidirectional when designations are unique); an NEO
\* shadowed by a later one of the same designation lists the approaches of
\* the designation although their neo is the later NEO.
C4_BidirectionalForIndexedNeos ==
    pc = "done" =>
        \A n \in NeoIds : \A a \in ApproachIds :
            /\ approaches[a].neo = n => a \in Range(neos[n].approaches)
            /\ n = Last(NeosDesignated(neos[n].designation))
                  => (a \in Range(neos[n].approaches) => approaches[a].neo = n)
            /\ /\ n # Last(NeosDesignated(neos[n].designation))
               /\ a \in Range(neos[n].approaches)
               => approaches[a].neo = Last(NeosDesignated(neos[n].designation))

C4_Witness ==
    /\ pc = "done"
    /\ \E n, m \in NeoIds : \E a \in ApproachIds :
          /\ n < m
          /\ neos[n].designation = neos[m].designation
          /\ a \in Range(neos[n].approaches)
          /\ a \in Range(neos[m].approaches)
          /\ approaches[a].neo = m

\* C5: construction over an approach whose designation matches no NEO ends
\* in an error, and the abort never leaves some approaches linked while
\* others are unlinked.
C5_AbortLeavesNoPartialLinking ==
    /\ (pc # "new" /\ Unresolved # {}) => pc = "KeyError"
    /\ pc = "KeyError" =>
          ~ (/\ \E a \in ApproachIds : approaches[a].neo # NoNeo
             /\ \E b \in ApproachIds : approaches[b].neo = NoNeo)

\* C8: get_neo_by_designation returns not-found exactly if no NEO has the
\* designation, and otherwise the last NEO of the collection that has it.
C8_DesignationLookupExactLastWins ==
    result.op = "get_neo_by_designation" =>
        LET matches == NeosDesignated(result.arg) IN
        /\ result.ret = NoNeo <=> matches = {}
        /\ matches # {} =>
              /\ result.ret = Last(matches)
              /\ neos[result.ret].designation = result.arg

C8_Witness ==
    /\ result.op = "get_neo_by_designation"
    /\ Cardinality(NeosDesignated(result.arg)) = 2
    /\ result.ret = 2

(***************************************************************************)
(* Properties of query.                                                    *)
(***************************************************************************)
\* The predicate each recognized key stands for.
PredicateOf(key, value, ca) ==
    CASE key \in {"date", "start_date", "end_date"} -> DateFilter(value[1], value[2], ca)
      [] key \in {"distance_min", "distance_max"}   -> DistanceFilter(value[1], value[2], ca)
      [] key \in {"velocity_min", "velocity_max"}   -> VelocityFilter(value[1], value[2], ca)
      [] key \in {"diameter_min", "diameter_max"}   -> DiameterFilter(value[1], value[2], ca)
      [] key = "hazardous"                          -> HazardousFilter(value[1], value[2], ca)

Increasing(s) == \A j, k \in DOMAIN s : j < k => s[j] < s[k]

\* C6: a fully consumed query has yielded exactly the close approaches on
\* which the predicate of every recognized key of the mapping is true, each
\* once and in the order of the approach collection; with the empty mapping
\* that is every close approach; other keys change nothing.
C6_QueryYieldsConjunctionInOrder ==
    \A s \in DOMAIN streams :
        streams[s].status = "exhausted" =>
            LET g == streams[s]
                K == (DOMAIN g.filters) \cap RecognizedKeys
                Match(a) == \A k \in K : PredicateOf(k, g.filters[k], approaches[a])
            IN  /\ Range(g.out) = {a \in ApproachIds : Match(a)}
                /\ Increasing(g.out)
                /\ K = {} => Len(g.out) = Len(approaches)

C6_Witness ==
    \E s \in DOMAIN streams :
        /\ streams[s].status = "exhausted"
        /\ Cardinality((DOMAIN streams[s].filters) \cap RecognizedKeys) = 2
        /\ streams[s].out # <<>>
        /\ Len(streams[s].out) < Len(approaches)

IsHazardousOnly(filters) ==
    /\ DOMAIN filters = {"hazardous"}
    /\ Len(filters["hazardous"]) = 1
    /\ filters["hazardous"][1] = TRUE

\* C7: query with {hazardous: (true,)} does not raise and yields exactly the
\* close approaches whose NEO is hazardous.
C7_HazardousOneElementValueAccepted ==
    \A s \in DOMAIN streams :
        IsHazardousOnly(streams[s].filters) =>
            /\ streams[s].status # "IndexError"
            /\ streams[s].status = "exhausted" =>
                  /\ Range(streams[s].out)
                        = {a \in ApproachIds : neos[approaches[a].neo].hazardous}
                  /\ Increasing(streams[s].out)

\* A generator consumed alone: n calls of next() on a fresh generator.
RECURSIVE RunAlone(_, _)
RunAlone(filters, n) ==
    IF n = 0 THEN NewGenerator(filters)
    ELSE LET g == RunAlone(filters, n - 1)
         IN  IF Live(g) THEN Resume(g, approaches, g.pos) ELSE g

\* C9: whatever the interleaving of the streams of a database, each stream
\* is where it would be, and has yielded what it would have yielded, after
\* as many steps when consumed alone.
C9_StreamsIndependent ==
    \A s \in DOMAIN streams :
        streams[s] = RunAlone(streams[s].filters, streams[s].calls)

C9_Witness ==
    /\ Len(streams) = 2
    /\ streams[1].filters = EmptyFilters
    /\ streams[2].filters = EmptyFilters
    /\ streams[1].status = "suspended"
    /\ streams[1].out = <<1>>
    /\ streams[2].status = "exhausted"
    /\ streams[2].out = <<1, 2>>

\* C10: after construction no lookup and no query step changes the indices,
\* the collections, an NEO or a close approach.
C10_LookupsAndQueriesMutateNothing ==
    [][pc = "done" => UNCHANGED <<neos, approaches, neo_des_dic, neo_nam_dic>>]_vars

C10_Witness ==
    /\ pc = "done"
    /\ approaches # <<>>
    /\ result.op = "get_neo_by_name"
    /\ result.ret = NoNeo
    /\ \E s \in DOMAIN streams :
          /\ streams[s].status = "exhausted"
          /\ streams[s].out = <<>>
    /\ \E s \in DOMAIN streams : "name" \in DOMAIN streams[s].filters

====
